---- MODULE Spec2Model ----
(***************************************************************************)
(* A2A-MCP-RealEstate: the agent collaboration framework                   *)
(* (app/agent/collaboration.py, app/agent/a2a_agent.py), the JSON-RPC      *)
(* processor (app/agent/json_rpc.py) and the agent registry                *)
(* (app/agent/agent_registry.py) as state machines.                        *)
(*                                                                         *)
(* Python indexes are 0-based and are kept 0-based in the model (step i is *)
(* steps[i + 1] of the TLA+ sequence).  A dict is a function; a dict key   *)
(* such as f"step_{i}" is the pair <<"step", i>>.                          *)
(***************************************************************************)
EXTENDS Integers, Sequences, FiniteSets, TLC

VARIABLES
    connections,      \* A2AAgent.connections: the agent ids with a connection
    workflows,        \* CollaborativeAgent.workflows: workflow_id -> workflow
    execs,            \* the execute_workflow coroutines, one per caller slot
    discovered,       \* AgentDiscovery.discovered_agents, in insertion order
    dispatch,         \* the request_collaboration call in progress
    capabilities,     \* CollaborativeAgent.capabilities: capability -> level
    active_tasks,     \* CollaborativeAgent.active_tasks: task_id -> TaskRequest
    collab_response,  \* what handle_collaboration_request returned last
    rpc,              \* the process_request call: its argument and its result
    registry,         \* AgentRegistry: agents, categories, tags, registry file
    message_queue,    \* A2AAgent.message_queue: the envelopes accepted so far
    received,         \* what receive_message did last: its reply or its raise
    completed_tasks,  \* CollaborativeAgent.completed_tasks: task_id -> TaskResponse
    partners,         \* CollaborativeAgent.collaboration_partners: agent_id -> data
    http,             \* the status code the last route call ended with
    stream,           \* StreamManager: one stream, its queue and its consumer
    conversation      \* MultiAgentConversation: sessions, messages, client

workflowVars == <<workflows, execs>>

acceptVars == <<capabilities, active_tasks, collab_response>>

collaborationVars ==
    <<connections, workflows, execs, discovered, dispatch, capabilities,
      active_tasks, collab_response>>

inboxVars == <<message_queue, received>>

routeVars == <<completed_tasks, partners, http>>

serviceVars == <<routeVars, stream, conversation>>

vars == <<collaborationVars, rpc, registry, inboxVars, serviceVars>>

(***************************************************************************)
(* Bounds and input domains                                                *)
(***************************************************************************)
MaxSteps == 2

Agents == {"a1", "a2"}

WorkflowIds == {"w1"}

\* an id no create_workflow call ever registers
UnknownIds == {"w9"}

\* the callers that may have an execute_workflow call in progress at once
Execs == {"e1", "e2"}

\* workflow.name is free text; execute_workflow looks for three values
WorkflowNames == {"sequential", "parallel", "pipeline", "custom"}

\* workflow.agents (List[str])
AgentLists == {<<>>, <<"a1">>, <<"a1", "a2">>}

\* a step is a Dict[str, Any]: nothing checks that "type" and "description"
\* are there before the executor reads them
StepShapes == {"full", "no_type", "no_description"}

StepLists == UNION {[1..n -> StepShapes] : n \in 0..MaxSteps}

(***************************************************************************)
(* Dicts                                                                   *)
(***************************************************************************)
EmptyDict == [k \in {} |-> "none"]

Put(d, k, v) == [x \in (DOMAIN d) \cup {k} |-> IF x = k THEN v ELSE d[x]]

ErrorKey == <<"error", 0>>

(***************************************************************************)
(* A2AAgent.send_message and the replies of the remote agent               *)
(***************************************************************************)
\* What the POST to {url}/api/agent/message ends with:
\*   neterr   the httpx call raises
\*   non200   a reply whose status_code is not 200
\*   falsy    200 with a JSON body that is falsy ({} or null)
\*   invalid  200 with a JSON body TaskResponse(**body) rejects
\*   response 200 with a valid TaskResponse
NoReply(kind) == [kind |-> kind, status |-> "-", result |-> "-"]

ValidReplies ==
    [kind : {"response"}, status : {"completed", "rejected"}, result : {"r1"}]
    \cup [kind : {"response"}, status : {"completed"}, result : {"none"}]

Replies ==
    {NoReply("neterr"), NoReply("non200"), NoReply("falsy"), NoReply("invalid")}
    \cup ValidReplies

\* no connection: ValueError before any POST (a2a_agent.py:81-82)
NoConnection == NoReply("noconn")

\* A2AAgent.send_message: "raise", None, or the JSON body of the reply
send_message(conns, target, reply) ==
    IF target \notin conns THEN [kind |-> "raise", body |-> NoConnection]
    ELSE IF reply.kind = "neterr" THEN [kind |-> "raise", body |-> reply]
    ELSE IF reply.kind = "non200" THEN [kind |-> "none", body |-> reply]
    ELSE [kind |-> "json", body |-> reply]

\* the reply is appended without validation
collect_Unvalidated(responses, out) ==
    IF out.kind = "json" THEN Append(responses, out.body) ELSE responses

\* the body of request_collaboration's loop for one target: the try block
\* appends TaskResponse(**response) when response is truthy and validates;
\* every exception is logged and dropped
collect(responses, out) ==
    IF out.kind = "json" /\ out.body.kind = "response"
    THEN Append(responses, out.body)
    ELSE responses

(***************************************************************************)
(* Workflows                                                               *)
(***************************************************************************)
NoWorkflow ==
    [name |-> "none", agents |-> <<>>, steps |-> <<>>, status |-> "unregistered"]

Registered(wfs, w) == wfs[w].status # "unregistered"

IdleExec ==
    [pc |-> "idle", wf |-> "none", pending |-> {}, results |-> EmptyDict,
     sent |-> {}, responses |-> EmptyDict, wrote |-> "none",
     requests |-> EmptyDict]

\* agent_id = workflow.agents[i % len(workflow.agents)], then TaskRequest(
\* task_type=step["type"], description=step["description"], ...): the
\* exception building the request of step i raises, "none" when it is built
BuildError(wf, i) ==
    IF Len(wf.agents) = 0 THEN "ZeroDivisionError"
    ELSE IF wf.steps[i + 1] = "no_type" THEN "KeyError: type"
    ELSE IF wf.steps[i + 1] = "no_description" THEN "KeyError: description"
    ELSE "none"

AgentOf(wf, i) == wf.agents[(i % Len(wf.agents)) + 1]

StepKey(name) == IF name = "pipeline" THEN "pipeline_step" ELSE "step"

\* the exception leaves execute_workflow instead of being turned into a result
Failed_Propagates(x, msg) ==
    [x EXCEPT !.pc = "raised", !.pending = {}, !.results = EmptyDict,
              !.wrote = "running"]

\* except Exception as e: workflow.status = "failed"; results["error"] = str(e)
\* (results is still the {} of line 145: the strategy raised before returning)
Failed(x, msg) ==
    [x EXCEPT !.pc = "returned", !.pending = {},
              !.results = Put(EmptyDict, ErrorKey, msg), !.wrote = "failed"]

Completed(x, results) ==
    [x EXCEPT !.pc = "returned", !.pending = {},
              !.results = results, !.wrote = "completed"]

\* response[0].result or {}
ResultOrEmpty(resp) == IF resp.result = "none" THEN "empty" ELSE resp.result

\* a value of a requirements dict: a plain value, or a dict (the prior
\* result a pipeline step gets as "input_data"), named by where it is from
Value(of) == [tag |-> "value", of |-> of]

DictValue(of) == [tag |-> "dict", of |-> of]

\* step.get("requirements", {}): a step that has the member has these three
\* keys
OwnRequirements == [k \in {"own", "shared", "input_data"} |-> Value("own")]

StepRequirements(shape) ==
    IF shape = "no_requirements" THEN EmptyDict ELSE OwnRequirements

\* the keys of a result: one of its own and the key "shared"
ResultKeys(result) == {"shared", IF result = "r1" THEN "out1" ELSE "out2"}

\* the dict a TaskResponse.result stands for: "empty" is {}
AsDict(result) ==
    IF result = "empty" THEN EmptyDict
    ELSE [k \in ResultKeys(result) |-> Value(result)]

\* the keys of a win over equal keys of b
Merge_FirstWins(a, b) ==
    [k \in (DOMAIN a) \cup (DOMAIN b) |-> IF k \in DOMAIN a THEN a[k] ELSE b[k]]

\* {**a, **b}
Merge(a, b) ==
    [k \in (DOMAIN a) \cup (DOMAIN b) |-> IF k \in DOMAIN b THEN b[k] ELSE a[k]]

\* a pipeline step gets the prior result merged in, as a sequential step does
Requirements_PipelineMerges(wf, i, results) ==
    LET own == StepRequirements(wf.steps[i + 1])
        prior == IF i = 0 THEN "empty" ELSE results[<<StepKey(wf.name), i - 1>>]
    IN IF wf.name \in {"sequential", "pipeline"} THEN Merge(own, AsDict(prior))
       ELSE own

\* the requirements of the TaskRequest of step i: results holds current_data
\* (pipeline_data) as the entry of step i - 1
\*   sequential  {**step.get("requirements", {}), **current_data}
\*   pipeline    the step's own, and for i > 0 ["input_data"] = pipeline_data
\*   parallel    step.get("requirements", {})
Requirements(wf, i, results) ==
    LET own == StepRequirements(wf.steps[i + 1])
        prior == IF i = 0 THEN "empty" ELSE results[<<StepKey(wf.name), i - 1>>]
    IN IF wf.name = "sequential" THEN Merge(own, AsDict(prior))
       ELSE IF wf.name = "pipeline" /\ i > 0 THEN Put(own, "input_data", DictValue(prior))
       ELSE own

\* the request_collaboration call of step i: its target and the task's
\* requirements
Request(wf, i, results) ==
    [agent |-> AgentOf(wf, i), requirements |-> Requirements(wf, i, results)]

\* _execute_sequential_workflow / _execute_pipeline_workflow from step i up
\* to the next suspension (the POST of step i) or to the end of the call
RunSteps(x, wf, i, conns) ==
    IF i = Len(wf.steps) THEN Completed(x, x.results)
    ELSE IF BuildError(wf, i) # "none" THEN Failed(x, BuildError(wf, i))
    ELSE IF AgentOf(wf, i) \notin conns
         THEN Failed([x EXCEPT !.responses = Put(x.responses, i, <<>>)], "Step failed")
    ELSE [x EXCEPT !.pc = "await", !.pending = {i}, !.sent = x.sent \cup {i},
                   !.requests = Put(x.requests, i, Request(wf, i, x.results))]

\* a failed step is skipped and the next step runs
AfterStepReply_NoAbort(x, wf, i, reply, conns) ==
    LET response == collect(<<>>, send_message(conns, AgentOf(wf, i), reply))
        y == [x EXCEPT !.responses = Put(x.responses, i, response)]
    IN RunSteps([y EXCEPT !.results =
                    Put(y.results, <<StepKey(wf.name), i>>,
                        IF response # <<>> THEN ResultOrEmpty(response[1])
                        ELSE "empty")],
                wf, i + 1, conns)

\* the reply to the POST of step i arrives: lines 179-184 (230-235), then on
\* to step i + 1
AfterStepReply(x, wf, i, reply, conns) ==
    LET response == collect(<<>>, send_message(conns, AgentOf(wf, i), reply))
        y == [x EXCEPT !.responses = Put(x.responses, i, response)]
    IN IF response # <<>> /\ response[1].status = "completed"
       THEN RunSteps([y EXCEPT !.results =
                         Put(y.results, <<StepKey(wf.name), i>>,
                             ResultOrEmpty(response[1]))],
                     wf, i + 1, conns)
       ELSE Failed(y, "Step failed")

StepIndexes(wf) == 0..(Len(wf.steps) - 1)

\* return {f"task_{i}": result for i, result in enumerate(results)}
ParallelResults(x) ==
    [k \in {<<"task", i>> : i \in DOMAIN x.responses} |-> x.responses[k[2]]]

\* _execute_parallel_workflow up to the suspension in asyncio.gather: the
\* loop builds every request first (an exception there ends the call before
\* any coroutine has run), then every coroutine runs to its POST
RunParallel(x, wf, conns) ==
    LET bad == {i \in StepIndexes(wf) : BuildError(wf, i) # "none"}
        first == CHOOSE i \in bad : \A j \in bad : i <= j
        off == {i \in StepIndexes(wf) : AgentOf(wf, i) \notin conns}
        on == StepIndexes(wf) \ off
        y == [x EXCEPT !.pending = on, !.sent = on,
                       !.responses = [i \in off |-> <<>>],
                       !.requests = [i \in on |-> Request(wf, i, EmptyDict)]]
    IN IF bad # {} THEN Failed(x, BuildError(wf, first))
       ELSE IF on = {} THEN Completed(y, ParallelResults(y))
       ELSE [y EXCEPT !.pc = "await"]

\* the reply to the POST of parallel step k arrives; gather returns once no
\* POST is left in flight
AfterParallelReply(x, wf, k, reply, conns) ==
    LET entry == collect(<<>>, send_message(conns, AgentOf(wf, k), reply))
        y == [x EXCEPT !.responses = Put(x.responses, k, entry),
                       !.pending = x.pending \ {k}]
    IN IF y.pending = {} THEN Completed(y, ParallelResults(y))
       ELSE y

\* execute_workflow after workflow.status = "running": lines 145-161
RunWorkflow(x, wf, conns) ==
    IF wf.name \in {"sequential", "pipeline"} THEN RunSteps(x, wf, 0, conns)
    ELSE IF wf.name = "parallel" THEN RunParallel(x, wf, conns)
    ELSE Completed(x, EmptyDict)

WriteStatus(wfs, w, x) ==
    IF x.wrote = "none" THEN wfs
    ELSE [wfs EXCEPT ![w].status = x.wrote]

(***************************************************************************)
(* request_collaboration (dispatch) and handle_collaboration_request       *)
(***************************************************************************)
MaxTargets == 3

MaxLevel == 1

Caps == {"c1", "c2"}

\* settings.agent_id, the id of the local agent
SelfId == "a0"

\* the agents whose cards reach agent_discovery.register_agent, and the
\* capabilities.primary_functions such a card lists
DiscoverableIds == {SelfId, "a1"}

CardCaps == {{"c1"}}

TaskIds == {"t1"}

\* skill levels are ints; register_capability checks no range
Levels == 0..MaxLevel

\* a TaskRequest as far as the collaboration code reads it: task_id,
\* requirements["required_capabilities"], requirements[cap + "_min_level"]
\* for the capabilities that have the key
Tasks ==
    UNION {[task_id : TaskIds, required : {req},
            min_level : UNION {[k -> Levels] : k \in SUBSET req}]
           : req \in SUBSET Caps}

TargetLists == UNION {[1..n -> Agents] : n \in 0..MaxTargets}

\* AgentDiscovery.register_agent: discovered_agents[agent_id] = card
DiscoveredPut(disc, id, caps) ==
    IF \E i \in 1..Len(disc) : disc[i].id = id
    THEN [i \in 1..Len(disc) |->
             IF disc[i].id = id THEN [id |-> id, caps |-> caps] ELSE disc[i]]
    ELSE Append(disc, [id |-> id, caps |-> caps])

\* CollaborativeAgent._find_suitable_agents: the discovered agents, the local
\* one left out, with a capability among requirements.required_capabilities
find_suitable_agents(disc, required) ==
    LET Match(d) == d.id # SelfId /\ d.caps \cap required # {}
        sel == SelectSeq(disc, Match)
    IN [i \in 1..Len(sel) |-> sel[i].id]

IdleDispatch ==
    [pc |-> "idle", explicit |-> FALSE, given |-> <<>>, targets |-> <<>>,
     idx |-> 0, responses |-> <<>>]

\* the first target fails and the exception leaves request_collaboration
RunDispatch_Raises(d, conns) ==
    IF d.idx = Len(d.targets) THEN [d EXCEPT !.pc = "returned"]
    ELSE IF d.targets[d.idx + 1] \notin conns THEN [d EXCEPT !.pc = "raised"]
    ELSE [d EXCEPT !.pc = "await"]

\* the loop of request_collaboration (lines 73-88) from target idx up to the
\* next POST: a target without a connection makes send_message raise before
\* any POST, the except logs it and the loop goes on
RunDispatch(d, conns) ==
    LET open == {j \in d.idx..(Len(d.targets) - 1) : d.targets[j + 1] \in conns}
    IN IF open = {}
       THEN [d EXCEPT !.pc = "returned", !.idx = Len(d.targets)]
       ELSE [d EXCEPT !.pc = "await",
                      !.idx = CHOOSE j \in open : \A k \in open : j <= k]

NoResponse ==
    [task_id |-> "none", status |-> "none", has_result |-> FALSE, suggested |-> <<>>]

\* the threshold is 0 when the key is absent
MinLevel_DefaultZero(task, cap) ==
    IF cap \in DOMAIN task.min_level THEN task.min_level[cap] ELSE 0

\* task.requirements.get(f"{cap}_min_level", 1)
MinLevel(task, cap) ==
    IF cap \in DOMAIN task.min_level THEN task.min_level[cap] ELSE 1

\* CollaborativeAgent._evaluate_task_capability: False at the first required
\* capability that is not registered or whose level is below the threshold
evaluate_task_capability(caps, task) ==
    ~\E cap \in task.required :
        \/ cap \notin DOMAIN caps
        \/ caps[cap] < MinLevel(task, cap)

(***************************************************************************)
(* Actions of the dispatcher and of the request handler                    *)
(***************************************************************************)
\* AgentDiscovery.register_agent(agent_id, agent_card)
register_agent(id, caps) ==
    /\ discovered' = DiscoveredPut(discovered, id, caps)
    /\ UNCHANGED <<connections, workflowVars, dispatch, acceptVars, rpc, registry, inboxVars, serviceVars>>

\* request_collaboration(task, target_agents): target_agents None or empty
\* makes it look for suitable agents; then it runs up to its first POST
request_collaboration(required, explicit, given) ==
    /\ dispatch.pc # "await"
    /\ explicit \/ given = <<>>
    /\ dispatch' =
           RunDispatch([pc |-> "await", explicit |-> explicit, given |-> given,
                        targets |-> IF given = <<>>
                                    THEN find_suitable_agents(discovered, required)
                                    ELSE given,
                        idx |-> 0, responses |-> <<>>],
                       connections)
    /\ UNCHANGED <<connections, workflowVars, discovered, acceptVars, rpc, registry, inboxVars, serviceVars>>

\* the POST to target idx ends with reply; the loop goes on to the next POST
dispatch_reply(reply) ==
    /\ dispatch.pc = "await"
    /\ dispatch' =
           RunDispatch([dispatch EXCEPT
                           !.responses =
                               collect(dispatch.responses,
                                       send_message(connections,
                                                    dispatch.targets[dispatch.idx + 1],
                                                    reply)),
                           !.idx = dispatch.idx + 1],
                       connections)
    /\ UNCHANGED <<connections, workflowVars, discovered, acceptVars, rpc, registry, inboxVars, serviceVars>>

\* CollaborativeAgent.register_capability
register_capability(cap, level) ==
    /\ capabilities' = Put(capabilities, cap, level)
    /\ UNCHANGED <<connections, workflowVars, discovered, dispatch,
                   active_tasks, collab_response, rpc, registry, inboxVars, serviceVars>>

\* CollaborativeAgent.handle_collaboration_request(request_data)
handle_collaboration_request(task) ==
    /\ IF evaluate_task_capability(capabilities, task)
       THEN /\ active_tasks' = Put(active_tasks, task.task_id, task)
            /\ collab_response' =
                   [task_id |-> task.task_id, status |-> "accepted",
                    has_result |-> FALSE, suggested |-> <<>>]
       ELSE /\ active_tasks' = active_tasks
            /\ collab_response' =
                   [task_id |-> task.task_id, status |-> "rejected",
                    has_result |-> TRUE,
                    suggested |-> find_suitable_agents(discovered, task.required)]
    /\ UNCHANGED <<connections, workflowVars, discovered, dispatch, capabilities, rpc, registry, inboxVars, serviceVars>>

(***************************************************************************)
(* The JSON-RPC processor (json_rpc.py)                                    *)
(***************************************************************************)
MaxBatch == 2

\* JsonRpcProcessor.methods after the module is imported
Methods ==
    {"ping", "get_capabilities", "get_status", "analyze_investment_value",
     "analyze_quality_of_life", "search_real_estate"}

\* the member "method" of a request object: absent, registered, unregistered
MethodMembers == {"absent", "ping", "nope"}

\* the member "id": absent, null, a string or integer, or a value that is
\* none of these ("invalid": an array or an object)
ClientIds == {"s1", "s2"}

IdMembers == {"absent", "null", "invalid"} \cup ClientIds

\* the member "params": absent, an array with one element, or a value that
\* is neither an array nor an object ("scalar")
ParamsMembers == {"absent", "array1", "scalar"}

\* an element that is no JSON object (a number, a string, null, an array)
NonObject == [kind |-> "scalar", method |-> "absent", id |-> "absent", params |-> "absent"]

RequestObjects ==
    [kind : {"object"}, method : MethodMembers, id : IdMembers, params : ParamsMembers]

Elements == RequestObjects \cup {NonObject}

\* what process_request is called with: text that is no JSON, one JSON
\* value, or an array of values
RequestData ==
    {[kind |-> "garbled", elems |-> <<>>]}
    \cup {[kind |-> "single", elems |-> <<e>>] : e \in Elements}
    \cup {[kind |-> "batch", elems |-> es] :
             es \in UNION {[1..n -> Elements] : n \in 0..MaxBatch}}

\* a value returned by _process_single_request: None, an error response or
\* a success response
NoneResponse == [kind |-> "none", code |-> 0, id |-> "null"]

ErrorResponse(id, code) == [kind |-> "error", code |-> code, id |-> id]

ResultResponse(id) == [kind |-> "result", code |-> 0, id |-> id]

Returned(response, invoked) == [out |-> "return", response |-> response, invoked |-> invoked]

Raised(invoked) == [out |-> "raise", response |-> NoneResponse, invoked |-> invoked]

\* request_data.get('id'): None when the member is absent
RawId(req) == IF req.id = "absent" THEN "null" ELSE req.id

\* JsonRpcRequest.id: the default_factory gives an absent id a fresh uuid
RequestId(req) == IF req.id = "absent" THEN "uuid" ELSE req.id

\* _create_error_response: JsonRpcResponse(id=request_id) fails validation
\* when the id is no string, integer or None
create_error_response(id, code, invoked) ==
    IF id = "invalid" THEN Raised(invoked)
    ELSE Returned(ErrorResponse(id, code), invoked)

\* validation that lets any params through
Validates_AnyParams(req) ==
    /\ req.method # "absent"
    /\ req.id # "invalid"

\* JsonRpcRequest(**request_data) for a JSON object: method is required,
\* params is None, a list or a dict, id is None, a string or an integer
Validates(req) ==
    /\ req.method # "absent"
    /\ req.params # "scalar"
    /\ req.id # "invalid"

\* the registered methods of the requests take no positional argument (ping)
Binds(method, params) == params = "absent"

\* _process_single_request(request_data)
process_single_request(req) ==
    IF req.kind # "object"
    THEN \* ** of a non-mapping is a TypeError, and the handler's
         \* request_data.get('id') raises in its turn
         Raised(FALSE)
    ELSE IF ~Validates(req)
    THEN create_error_response(RawId(req), -32600, FALSE)
    ELSE IF req.method \notin Methods
    THEN create_error_response(RequestId(req), -32601, FALSE)
    ELSE IF ~Binds(req.method, req.params)
    THEN create_error_response(RawId(req), -32603, FALSE)
    ELSE IF RequestId(req) = "null"
    THEN Returned(NoneResponse, TRUE)
    ELSE Returned(ResultResponse(RequestId(req)), TRUE)

\* _process_batch(requests): every request is processed; an exception of
\* request i is turned into an error response for requests[i].get('id')
process_batch(elems) ==
    LET outs == [i \in 1..Len(elems) |-> process_single_request(elems[i])]
        invoked == [i \in 1..Len(elems) |-> outs[i].invoked]
        \* requests[i].get('id') raises for a non-object, and
        \* _create_error_response for an invalid id
        entry(i) == IF outs[i].out = "return" THEN outs[i]
                    ELSE IF elems[i].kind # "object" THEN Raised(FALSE)
                    ELSE create_error_response(RawId(elems[i]), -32603, FALSE)
    IN IF elems = <<>>
       THEN [out |-> "return", shape |-> "object",
             items |-> <<ErrorResponse("null", -32600)>>, invoked |-> invoked]
       ELSE IF \E i \in 1..Len(elems) : entry(i).out = "raise"
       THEN [out |-> "raise", shape |-> "object", items |-> <<>>, invoked |-> invoked]
       ELSE [out |-> "return", shape |-> "array",
             items |-> [i \in 1..Len(elems) |-> entry(i).response],
             invoked |-> invoked]

\* process_request(request_data): the value it returns and the requests
\* whose method ran
process_request_result(data) ==
    LET single == process_single_request(data.elems[1])
        batch == process_batch(data.elems)
        internal(invoked) ==
            [shape |-> "object", items |-> <<ErrorResponse("null", -32603)>>,
             invoked |-> invoked]
    IN IF data.kind = "garbled"
       THEN [shape |-> "object", items |-> <<ErrorResponse("null", -32700)>>,
             invoked |-> <<>>]
       ELSE IF data.kind = "batch"
       THEN IF batch.out = "raise" THEN internal(batch.invoked)
            ELSE [shape |-> batch.shape, items |-> batch.items, invoked |-> batch.invoked]
       ELSE IF single.out = "raise" THEN internal(<<single.invoked>>)
       ELSE [shape |-> "object", items |-> <<single.response>>,
             invoked |-> <<single.invoked>>]

IdleRpc ==
    [pc |-> "idle", request |-> [kind |-> "garbled", elems |-> <<>>],
     shape |-> "object", items |-> <<>>, invoked |-> <<>>]

(***************************************************************************)
(* The agent registry (agent_registry.py)                                  *)
(***************************************************************************)
MaxTrust == 2

MaxPopularity == 2

RegistryIds == {"r1", "r2"}

Statuses == {"active", "inactive", "error"}

\* a RegistryAgent as far as get_all_agents reads it
RegistryAgents ==
    [agent_id : RegistryIds, status : Statuses,
     trust_level : 1..MaxTrust, popularity_score : 1..MaxPopularity]

\* an entry of the file's agents list that fails RegistryAgent(**agent_data)
BadRecord == [agent_id |-> "none", status |-> "none", trust_level |-> 0, popularity_score |-> 0]

Category == "cat"

Tag == "tag"

MissingFile ==
    [exists |-> FALSE, info |-> FALSE, agents |-> <<>>,
     categories |-> EmptyDict, tags |-> EmptyDict]

FileAgent == [agent_id |-> "r1", status |-> "active", trust_level |-> 1, popularity_score |-> 1]

\* the registry files a deployment may start from
InitialFiles ==
    {MissingFile}
    \cup [exists : {TRUE}, info : BOOLEAN,
          agents : {<<>>, <<FileAgent>>, <<FileAgent, BadRecord>>},
          categories : {EmptyDict, Put(EmptyDict, Category, <<"r1", "r2", "r1">>)},
          tags : {EmptyDict, Put(EmptyDict, Tag, <<"r1">>)}]

\* self.agents[agent.agent_id] = agent: a dict keeps the position of a key
\* that is overwritten
AgentsPut(as, agent) ==
    IF \E i \in 1..Len(as) : as[i].agent_id = agent.agent_id
    THEN [i \in 1..Len(as) |-> IF as[i].agent_id = agent.agent_id THEN agent ELSE as[i]]
    ELSE Append(as, agent)

RECURSIVE LoadAgents(_, _)
\* the loop of _load_registry over the file's agents list, up to the first
\* record that fails validation
LoadAgents(entries, as) ==
    IF entries = <<>> \/ Head(entries) = BadRecord THEN as
    ELSE LoadAgents(Tail(entries), AgentsPut(as, Head(entries)))

\* AgentRegistry.__init__ and _load_registry
load_registry(file) ==
    IF file.exists /\ \A i \in 1..Len(file.agents) : file.agents[i] # BadRecord
    THEN [agents |-> LoadAgents(file.agents, <<>>), categories |-> file.categories,
          tags |-> file.tags, has_info |-> file.info, file |-> file]
    ELSE [agents |-> IF file.exists THEN LoadAgents(file.agents, <<>>) ELSE <<>>,
          categories |-> EmptyDict, tags |-> EmptyDict, has_info |-> FALSE,
          file |-> file]

\* _save_registry: registry_data["registry_info"] is a KeyError when the
\* loaded data had none, and the except leaves the file as it was
save_registry(r) ==
    IF r.has_info
    THEN [r EXCEPT !.file = [exists |-> TRUE, info |-> TRUE, agents |-> r.agents,
                             categories |-> r.categories, tags |-> r.tags]]
    ELSE r

\* list.remove(x) after "if x in list": the first occurrence goes
RemoveFirst(s, x) ==
    IF \E i \in 1..Len(s) : s[i] = x
    THEN LET k == CHOOSE i \in 1..Len(s) : s[i] = x /\ \A j \in 1..(i - 1) : s[j] # x
         IN [i \in 1..(Len(s) - 1) |-> IF i < k THEN s[i] ELSE s[i + 1]]
    ELSE s

\* the sort without reverse=True
SortBefore_Ascending(a, b) ==
    \/ a.trust_level < b.trust_level
    \/ a.trust_level = b.trust_level /\ a.popularity_score < b.popularity_score

\* key=lambda x: (x.trust_level, x.popularity_score), reverse=True: a goes
\* before b when its key is the greater one
SortBefore(a, b) ==
    \/ a.trust_level > b.trust_level
    \/ a.trust_level = b.trust_level /\ a.popularity_score > b.popularity_score

RECURSIVE SortInsert(_, _)
\* list.sort is stable: of two records with equal keys the earlier stays first
SortInsert(sorted, x) ==
    IF sorted = <<>> THEN <<x>>
    ELSE IF SortBefore(x, Head(sorted)) THEN <<x>> \o sorted
    ELSE <<Head(sorted)>> \o SortInsert(Tail(sorted), x)

RECURSIVE SortAgents(_, _)
SortAgents(as, sorted) ==
    IF as = <<>> THEN sorted
    ELSE SortAgents(Tail(as), SortInsert(sorted, Head(as)))

\* AgentRegistry.get_all_agents(active_only)
get_all_agents(as, active_only) ==
    LET Active(a) == a.status = "active"
    IN SortAgents(IF active_only THEN SelectSeq(as, Active) ELSE as, <<>>)

(***************************************************************************)
(* Lookups of the registry: get_agent_by_alias, get_recommended_agents     *)
(***************************************************************************)
MaxQueryLen == 1

MaxLimit == 2

\* a text is the sequence of its characters; two letters in both cases
Chars == {"s", "S", "o", "O"}

\* str.lower() on one character
lower_Identity(c) == c

lower(c) == IF c = "S" THEN "s" ELSE IF c = "O" THEN "o" ELSE c

Lower(text) == [i \in 1..Len(text) |-> lower(text[i])]

\* the operator "in" between two strings: sub occurs in text
Contains(sub, text) ==
    \E i \in 0..(Len(text) - Len(sub)) :
        \A j \in 1..Len(sub) : text[i + j] = sub[j]

Queries == UNION {[1..n -> Chars] : n \in 0..MaxQueryLen}

Limits == 0..MaxLimit

Names == {<<"S", "o">>, <<"o">>}

AliasLists == {<<>>, <<<<"S">>>>, <<<<"S">>, <<"o">>>>}

KeywordLists == {<<<<"O">>>>}

Specialties == {<<"s">>}

\* RegistryAgent.popularity_score is divided by 20 in the score
PopularityScores == {1, 20}

\* a RegistryAgent as far as the lookups read it
LookupAgents ==
    [agent_id : RegistryIds, name : Names, aliases : AliasLists,
     keywords : KeywordLists, specialty : Specialties,
     trust_level : 1..MaxTrust, popularity_score : PopularityScores]

\* the value get_agent_by_alias returns when no record matches (None)
NotFound == [agent_id |-> "none"]

RECURSIVE get_agent_by_alias(_, _)
\* AgentRegistry.get_agent_by_alias(alias) over self.agents.values(): the
\* first record one of whose aliases is the lowered text, or whose lowered
\* name holds it
get_agent_by_alias(as, alias) ==
    IF as = <<>> THEN NotFound
    ELSE LET agent == Head(as)
             alias_lower == Lower(alias)
         IN IF \E i \in 1..Len(agent.aliases) : Lower(agent.aliases[i]) = alias_lower
            THEN agent
            ELSE IF Contains(alias_lower, Lower(agent.name))
            THEN agent
            ELSE get_agent_by_alias(Tail(as), alias)

RECURSIVE Hits(_, _, _)
\* "for word in words: if word.lower() in message_lower: score += weight"
Hits(words, message_lower, weight) ==
    IF words = <<>> THEN 0
    ELSE (IF Contains(Lower(Head(words)), message_lower) THEN weight ELSE 0)
         + Hits(Tail(words), message_lower, weight)

\* the alias weight taken for the keyword weight
agent_score_AliasAsKeyword(agent, message_lower) ==
    Hits(agent.keywords, message_lower, 3)
    + Hits(agent.aliases, message_lower, 3)
    + (IF Contains(Lower(agent.name), message_lower) THEN 4 ELSE 0)
    + (IF Contains(Lower(agent.specialty), message_lower) THEN 2 ELSE 0)
    + (agent.trust_level + agent.popularity_score \div 20)

\* the score get_recommended_agents gives one agent
agent_score(agent, message_lower) ==
    Hits(agent.keywords, message_lower, 3)
    + Hits(agent.aliases, message_lower, 5)
    + (IF Contains(Lower(agent.name), message_lower) THEN 4 ELSE 0)
    + (IF Contains(Lower(agent.specialty), message_lower) THEN 2 ELSE 0)
    + (agent.trust_level + agent.popularity_score \div 20)

RECURSIVE ScoreInsert(_, _, _)
\* sorted(..., key=score, reverse=True) is stable
ScoreInsert(sorted, x, message_lower) ==
    IF sorted = <<>> THEN <<x>>
    ELSE IF agent_score(x, message_lower) > agent_score(Head(sorted), message_lower)
    THEN <<x>> \o sorted
    ELSE <<Head(sorted)>> \o ScoreInsert(Tail(sorted), x, message_lower)

RECURSIVE ScoreSort(_, _, _)
ScoreSort(as, sorted, message_lower) ==
    IF as = <<>> THEN sorted
    ELSE ScoreSort(Tail(as), ScoreInsert(sorted, Head(as), message_lower), message_lower)

\* AgentRegistry.get_recommended_agents(user_message, limit), limit >= 0
get_recommended_agents(as, user_message, limit) ==
    LET message_lower == Lower(user_message)
        Scored(a) == agent_score(a, message_lower) > 0
        sorted_agents == ScoreSort(SelectSeq(as, Scored), <<>>, message_lower)
    IN SubSeq(sorted_agents, 1, IF limit < Len(sorted_agents) THEN limit ELSE Len(sorted_agents))

\* the members a fetched agent card may carry, and the cards by the members
\* they have
CardFields == {"name", "description", "url", "capabilities"}

Cards == SUBSET CardFields

\* the value remove_agent returns: "if agent_id in self.agents"
remove_agent_returns(r, agent_id) ==
    \E i \in 1..Len(r.agents) : r.agents[i].agent_id = agent_id

\* the RegistryAgent discover_and_register_agent builds from a card: every
\* member is read with .get and a default, status, trust_level and
\* popularity_score are fixed
DiscoveredAgent(agent_id, card) ==
    [agent_id |-> agent_id, status |-> "active", trust_level |-> 5, popularity_score |-> 50]

(***************************************************************************)
(* Actions of the JSON-RPC processor and of the registry                   *)
(***************************************************************************)
\* process_request(request_data), from the call to the returned value
process_request(data) ==
    /\ rpc.pc = "idle"
    /\ rpc' = LET r == process_request_result(data)
              IN [pc |-> "done", request |-> data, shape |-> r.shape,
                  items |-> r.items, invoked |-> r.invoked]
    /\ UNCHANGED <<collaborationVars, registry, inboxVars, serviceVars>>

\* the caller takes the returned value; the processor keeps nothing of it
rpc_return ==
    /\ rpc.pc = "done"
    /\ rpc' = IdleRpc
    /\ UNCHANGED <<collaborationVars, registry, inboxVars, serviceVars>>

\* AgentRegistry.add_agent(agent)
add_agent(agent) ==
    /\ registry' = save_registry([registry EXCEPT !.agents = AgentsPut(registry.agents, agent)])
    /\ UNCHANGED <<collaborationVars, rpc, inboxVars, serviceVars>>

\* AgentRegistry.discover_and_register_agent(well_known_url, agent_id): the
\* GET either fails (None is returned, nothing changes) or yields a card
discover_and_register_agent(agent_id, fetched, card) ==
    /\ registry' =
           IF fetched
           THEN save_registry([registry EXCEPT
                    !.agents = AgentsPut(registry.agents, DiscoveredAgent(agent_id, card))])
           ELSE registry
    /\ UNCHANGED <<collaborationVars, rpc, inboxVars, serviceVars>>

\* AgentRegistry.remove_agent(agent_id)
remove_agent(agent_id) ==
    /\ registry' =
           IF \E i \in 1..Len(registry.agents) : registry.agents[i].agent_id = agent_id
           THEN LET Others(a) == a.agent_id # agent_id
                IN save_registry(
                       [registry EXCEPT
                           !.agents = SelectSeq(registry.agents, Others),
                           !.categories = [c \in DOMAIN registry.categories |->
                                              RemoveFirst(registry.categories[c], agent_id)],
                           !.tags = [t \in DOMAIN registry.tags |->
                                        RemoveFirst(registry.tags[t], agent_id)]])
           ELSE registry
    /\ UNCHANGED <<collaborationVars, rpc, inboxVars, serviceVars>>

\* AgentRegistry.update_agent_status(agent_id, status)
update_agent_status(agent_id, status) ==
    /\ registry' =
           IF \E i \in 1..Len(registry.agents) : registry.agents[i].agent_id = agent_id
           THEN save_registry(
                    [registry EXCEPT
                        !.agents = [i \in 1..Len(registry.agents) |->
                                       IF registry.agents[i].agent_id = agent_id
                                       THEN [registry.agents[i] EXCEPT !.status = status]
                                       ELSE registry.agents[i]]])
           ELSE registry
    /\ UNCHANGED <<collaborationVars, rpc, inboxVars, serviceVars>>

(***************************************************************************)
(* A2AAgent.receive_message (a2a_agent.py)                                 *)
(***************************************************************************)
MaxQueue == 2

MessageIds == {"m1", "m2"}

MessageTypes ==
    {"ping", "data_request", "data_response", "collaboration_request",
     "workflow_invitation", "other"}

\* message_data as receive_message gets it: complete says whether it has
\* the six members of AgentMessage
Envelopes == [id : MessageIds, message_type : MessageTypes, complete : BOOLEAN]

NothingReceived == [out |-> "none", status |-> "none", message_id |-> "none", keys |-> {}]

\* AgentMessage(**message_data) raises a validation error
ReceiveRaised == [out |-> "raise", status |-> "none", message_id |-> "none", keys |-> {}]

\* a dict that receive_message returns, by its status, its message_id and
\* the keys it has
ReplyDict(status, message_id, keys) ==
    [out |-> "return", status |-> status, message_id |-> message_id, keys |-> keys]

\* every message_type gets the generic reply
reply_for_AllGeneric(message) ==
    ReplyDict("received", message.id, {"status", "message_id", "timestamp"})

\* the branch of receive_message on message.message_type, with _handle_ping,
\* _handle_data_request and _handle_data_response
reply_for(message) ==
    IF message.message_type = "ping"
    THEN ReplyDict("pong", message.id, {"status", "message_id", "agent_id", "timestamp"})
    ELSE IF message.message_type = "data_request"
    THEN ReplyDict("data_response", message.id, {"status", "message_id", "data", "timestamp"})
    ELSE IF message.message_type = "data_response"
    THEN ReplyDict("acknowledged", message.id, {"status", "message_id", "timestamp"})
    ELSE ReplyDict("received", message.id, {"status", "message_id", "timestamp"})

\* the entry appended to message_queue: the message's members and received_at
QueueEntry(message) == [id |-> message.id, message_type |-> message.message_type]

\* TaskResponse(**response) on the sender's side: task_id, agent_id and
\* status are required
AsTaskResponse(reply) ==
    IF reply.out = "return" /\ {"task_id", "agent_id", "status"} \subseteq reply.keys
    THEN [kind |-> "response", status |-> reply.status, result |-> "none"]
    ELSE NoReply("invalid")

\* AgentDiscovery.fetch_agent_card: the card when the GET succeeded and the
\* card has the four required members, else None
fetch_agent_card(fetched, card) ==
    IF fetched /\ CardFields \subseteq card THEN "card" ELSE "none"

\* A2AAgent.receive_message(message_data)
receive_message(message_data) ==
    /\ Len(message_queue) < MaxQueue
    /\ IF message_data.complete
       THEN /\ message_queue' = Append(message_queue, QueueEntry(message_data))
            /\ received' = reply_for(message_data)
       ELSE /\ message_queue' = message_queue
            /\ received' = ReceiveRaised
    /\ UNCHANGED <<collaborationVars, rpc, registry, serviceVars>>

(***************************************************************************)
(* The routes (routes/agent_routes.py, routes/collaboration_routes.py)     *)
(***************************************************************************)
\* no route has been called yet
NoCall == 0

\* a member the handler reads with .get: absent (or falsy), or a value
Absent == "absent"

\* the body of POST /discovery/register: agent_id and the card's capabilities
RegisterBodies == [agent_id : DiscoverableIds \cup {Absent}, caps : CardCaps]

\* the body of POST /discovery/find
FindBodies == Caps \cup {Absent}

\* the body of POST /partners/add: agent_id and the rest of the data
PartnerData == {"p1", "p2"}

PartnerBodies == [agent_id : Agents \cup {Absent}, data : PartnerData]

\* the body of POST /respond/{task_id}
ResponseData == {"d1", "d2"}

Drop(d, k) == [x \in (DOMAIN d) \ {k} |-> d[x]]

\* raise HTTPException(status_code) inside the handler's try block: the
\* handler's own "except Exception" catches it and raises a 500 instead
raise_in_try(status_code) == 500

\* POST /message: FastAPI validates the body against MessageRequest before
\* the handler runs (422); the handler passes the envelope to receive_message
route_receive_message(message_data) ==
    /\ Len(message_queue) < MaxQueue
    /\ IF message_data.complete
       THEN /\ message_queue' = Append(message_queue, QueueEntry(message_data))
            /\ received' = reply_for(message_data)
            /\ http' = 200
       ELSE /\ UNCHANGED inboxVars
            /\ http' = 422
    /\ UNCHANGED <<collaborationVars, rpc, registry, completed_tasks, partners,
                   stream, conversation>>

\* POST /discovery/register
route_register_agent(agent_data) ==
    /\ IF agent_data.agent_id = Absent
       THEN /\ http' = raise_in_try(400)
            /\ UNCHANGED discovered
       ELSE /\ discovered' = DiscoveredPut(discovered, agent_data.agent_id, agent_data.caps)
            /\ http' = 200
    /\ UNCHANGED <<connections, workflowVars, dispatch, acceptVars, rpc, registry,
                   inboxVars, completed_tasks, partners, stream, conversation>>

\* POST /discovery/find
route_find_agents_by_capability(capability) ==
    /\ http' = IF capability = Absent THEN raise_in_try(400) ELSE 200
    /\ UNCHANGED <<collaborationVars, rpc, registry, inboxVars, completed_tasks,
                   partners, stream, conversation>>

\* POST /partners/add
add_collaboration_partner(partner_data) ==
    /\ IF partner_data.agent_id = Absent
       THEN /\ http' = raise_in_try(400)
            /\ UNCHANGED partners
       ELSE /\ partners' = Put(partners, partner_data.agent_id, partner_data.data)
            /\ http' = 200
    /\ UNCHANGED <<collaborationVars, rpc, registry, inboxVars, completed_tasks,
                   stream, conversation>>

\* the TaskResponse respond_to_collaboration stores: status "completed" and
\* the result _execute_task made of the task and the response data
CompletedResponse(task_id, response_data) ==
    [task_id |-> task_id, status |-> "completed", result |-> response_data]

\* POST /respond/{task_id}
respond_to_collaboration(task_id, response_data) ==
    /\ IF task_id \notin DOMAIN active_tasks
       THEN /\ http' = raise_in_try(404)
            /\ UNCHANGED <<active_tasks, completed_tasks>>
       ELSE /\ completed_tasks' =
                   Put(completed_tasks, task_id, CompletedResponse(task_id, response_data))
            /\ active_tasks' = Drop(active_tasks, task_id)
            /\ http' = 200
    /\ UNCHANGED <<connections, workflowVars, discovered, dispatch, capabilities,
                   collab_response, rpc, registry, inboxVars, partners, stream,
                   conversation>>

(***************************************************************************)
(* StreamManager (streaming.py): one stream and its one consumer           *)
(***************************************************************************)
MaxSend == 3

\* a StreamMessage in the queue: its event and, for a data message, its
\* place among the messages send_message accepted
DataMessage(n) == [event |-> "message", n |-> n]

CloseMessage == [event |-> "stream_close", n |-> 0]

\* the first event get_stream_generator yields
ConnectedEvent == [event |-> "connected", n |-> 0]

\* the "close" event the generator yields for a stream_close message
CloseEvent == [event |-> "close", n |-> 0]

\* StreamManager.__init__: no stream; the consumer has not started
\*   active         stream_id in self.active_streams
\*   status, message_count   self.stream_metadata[stream_id]
\*   queue          the asyncio.Queue of the stream
\*   accepted       the data messages send_message returned True for
\*   last_send      what send_message returned last
\*   pc, yielded    where the generator is suspended, and what it yielded
NoStream ==
    [active |-> FALSE, status |-> "none", message_count |-> 0, queue |-> <<>>,
     accepted |-> <<>>, last_send |-> "none", pc |-> "none", yielded |-> <<>>]

\* send_message's put and count: the queue is unbounded, so put does not
\* suspend and lines 72-73 run without another task in between
Enqueue(st, message) ==
    [st EXCEPT !.queue = Append(st.queue, message),
               !.message_count = st.message_count + 1]

\* close_stream(stream_id): the stream_close message, then the stream is
\* taken out of active_streams
Close(st) ==
    IF st.active
    THEN [Enqueue(st, CloseMessage) EXCEPT !.active = FALSE, !.status = "closed"]
    ELSE st

\* create_stream() with a fresh stream_id
create_stream ==
    /\ stream.status = "none"
    /\ stream' = [stream EXCEPT !.active = TRUE, !.status = "active",
                                !.message_count = 0, !.queue = <<>>]
    /\ UNCHANGED <<collaborationVars, rpc, registry, inboxVars, routeVars, conversation>>

\* StreamManager.send_message(stream_id, "message", data) of a producer
stream_send_message ==
    /\ Len(stream.accepted) < MaxSend
    /\ stream' =
           IF ~stream.active THEN [stream EXCEPT !.last_send = "false"]
           ELSE [Enqueue(stream, DataMessage(Len(stream.accepted) + 1)) EXCEPT
                    !.accepted = Append(stream.accepted,
                                        DataMessage(Len(stream.accepted) + 1)),
                    !.last_send = "true"]
    /\ UNCHANGED <<collaborationVars, rpc, registry, inboxVars, routeVars, conversation>>

close_stream ==
    /\ stream.status # "none"
    /\ stream' = Close(stream)
    /\ UNCHANGED <<collaborationVars, rpc, registry, inboxVars, routeVars, conversation>>

\* get_stream_generator up to its first yield: "error" and the end for a
\* stream that is not active, else "connected"
generator_start ==
    /\ stream.status # "none"
    /\ stream.pc = "none"
    /\ stream' =
           IF ~stream.active THEN [stream EXCEPT !.pc = "done"]
           ELSE [stream EXCEPT !.pc = "connected",
                               !.yielded = Append(stream.yielded, ConnectedEvent)]
    /\ UNCHANGED <<collaborationVars, rpc, registry, inboxVars, routeVars, conversation>>

\* the consumer asks for the next event.  After "connected", a message or a
\* heartbeat the loop tests "stream_id in self.active_streams" and either
\* awaits queue.get() or leaves; after "close" it breaks.  Leaving runs the
\* finally block, which closes a stream that is still active.
generator_resume ==
    /\ stream.pc \in {"connected", "yield", "close"}
    /\ stream' =
           IF stream.pc # "close" /\ stream.active
           THEN [stream EXCEPT !.pc = "get"]
           ELSE [Close(stream) EXCEPT !.pc = "done"]
    /\ UNCHANGED <<collaborationVars, rpc, registry, inboxVars, routeVars, conversation>>

\* queue.get() returns the oldest message: "close" for stream_close, else
\* the message itself is yielded
generator_get ==
    /\ stream.pc = "get"
    /\ stream.queue # <<>>
    /\ LET message == Head(stream.queue)
       IN stream' =
              IF message.event = "stream_close"
              THEN [stream EXCEPT !.queue = Tail(stream.queue), !.pc = "close",
                                  !.yielded = Append(stream.yielded, CloseEvent)]
              ELSE [stream EXCEPT !.queue = Tail(stream.queue), !.pc = "yield",
                                  !.yielded = Append(stream.yielded, message)]
    /\ UNCHANGED <<collaborationVars, rpc, registry, inboxVars, routeVars, conversation>>

\* nothing arrived for 30 seconds: a heartbeat is yielded
generator_timeout ==
    /\ stream.pc = "get"
    /\ stream.queue = <<>>
    /\ stream' = [stream EXCEPT !.pc = "yield"]
    /\ UNCHANGED <<collaborationVars, rpc, registry, inboxVars, routeVars, conversation>>

(***************************************************************************)
(* MultiAgentConversation (multi_agent_conversation.py)                    *)
(***************************************************************************)
MaxMessages == 2

SessionIds == {"s1", "s2"}

\* self.external_agents after _register_known_agents
ExternalAgents == {"socratic-web3-tutor"}

\* participant_ids of start_conversation: known and unknown ids
ParticipantLists ==
    {<<>>, <<"socratic-web3-tutor">>, <<"stranger">>,
     <<"stranger", "socratic-web3-tutor">>}

\* recipient_id of send_message: None, or an id
Recipients == {"none", "socratic-web3-tutor", "stranger"}

\* what the POST to {agent.url}/message ends with
ConversationReplies == {"ok200", "non200", "neterr"}

NoSession == [status |-> "none", participants |-> <<>>, message_count |-> 0,
              messages |-> <<>>]

IdleCall == [pc |-> "idle", session |-> "none", to |-> "none"]

\* MultiAgentConversation.__init__: no session; the httpx.AsyncClient has
\* not been entered yet
NoConversation ==
    [sessions |-> [s \in SessionIds |-> NoSession], client |-> "unopened",
     call |-> IdleCall]

\* valid_participants of start_conversation
ValidParticipants(participant_ids) ==
    <<SelfId>> \o SelectSeq(participant_ids, LAMBDA p : p \in ExternalAgents)

\* the recipients send_message goes through, in order
RecipientsOf(session, recipient_id) ==
    IF recipient_id # "none" THEN <<recipient_id>>
    ELSE SelectSeq(session.participants, LAMBDA p : p # SelfId)

\* self.messages[session_id].append(...); message_count += 1
Store(session, sender_id) ==
    [session EXCEPT !.messages = Append(session.messages, sender_id),
                    !.message_count = session.message_count + 1]

\* start_conversation(title, participant_ids): the session id is fresh
start_conversation(session_id, participant_ids) ==
    /\ conversation.sessions[session_id].status = "none"
    /\ conversation' =
           [conversation EXCEPT !.sessions[session_id] =
               [status |-> "active",
                participants |-> ValidParticipants(participant_ids),
                message_count |-> 0, messages |-> <<>>]]
    /\ UNCHANGED <<collaborationVars, rpc, registry, inboxVars, routeVars, stream>>

\* send_message(session_id, content, recipient_id) up to its first POST.
\* "async with self.client" enters the client, which httpx allows once in
\* the life of a client: every later attempt raises RuntimeError, which
\* _send_message_to_external_agent logs and turns into None.
conversation_send_message(session_id, recipient_id) ==
    /\ conversation.call.pc = "idle"
    /\ conversation.sessions[session_id].status # "none"
    /\ Len(conversation.sessions[session_id].messages) < MaxMessages
    /\ LET session == conversation.sessions[session_id]
           known == SelectSeq(RecipientsOf(session, recipient_id),
                              LAMBDA p : p \in ExternalAgents)
           posts == known # <<>> /\ conversation.client = "unopened"
       IN conversation' =
              [conversation EXCEPT
                  !.sessions[session_id] = Store(session, SelfId),
                  !.client = IF posts THEN "open" ELSE @,
                  !.call = IF posts
                           THEN [pc |-> "await", session |-> session_id,
                                 to |-> known[1]]
                           ELSE IdleCall]
    /\ UNCHANGED <<collaborationVars, rpc, registry, inboxVars, routeVars, stream>>

\* the POST ends: a 200 stores the reply as a message of the agent; leaving
\* the "async with" block closes the client, so the remaining recipients
\* get nothing and send_message returns
conversation_reply(reply) ==
    /\ conversation.call.pc = "await"
    /\ LET session_id == conversation.call.session
           session == conversation.sessions[session_id]
       IN conversation' =
              [conversation EXCEPT
                  !.sessions[session_id] =
                      IF reply = "ok200" THEN Store(session, conversation.call.to)
                      ELSE session,
                  !.client = "closed",
                  !.call = IdleCall]
    /\ UNCHANGED <<collaborationVars, rpc, registry, inboxVars, routeVars, stream>>

\* end_conversation(session_id)
end_conversation(session_id) ==
    /\ conversation' =
           IF conversation.sessions[session_id].status = "none" THEN conversation
           ELSE [conversation EXCEPT !.sessions[session_id].status = "ended"]
    /\ UNCHANGED <<collaborationVars, rpc, registry, inboxVars, routeVars, stream>>

(***************************************************************************)
(* Input domains for the step chains of sequential and pipeline workflows  *)
(***************************************************************************)
MaxChain == 3

ChainNames == {"sequential", "pipeline"}

ChainAgentLists == {<<"a1">>, <<"a1", "a2">>}

\* steps with "type" and "description", with or without "requirements"
ChainShapes == {"full", "no_requirements"}

ChainStepLists == UNION {[1..n -> ChainShapes] : n \in 1..MaxChain}

\* the one caller of execute_workflow
ChainExec == "e1"

\* replies whose results differ, a reply without a result, a rejection and
\* a reply that is no 200
ChainReplies ==
    [kind : {"response"}, status : {"completed"}, result : {"r1", "r2", "none"}]
    \cup {[kind |-> "response", status |-> "rejected", result |-> "r1"],
          NoReply("non200")}

(***************************************************************************)
(* Actions of the workflow executor                                        *)
(***************************************************************************)
\* what create_workflow returns: False when send_message raises for one of
\* the invitations (no connection, or the POST raises), True otherwise
create_workflow_returns(conns, agents, replies) ==
    \A i \in 1..Len(agents) : send_message(conns, agents[i], replies[i]).kind # "raise"

\* A2AAgent.connect: the handshake answered 200 records the connection
connect(a, ok) ==
    /\ connections' = IF ok THEN connections \cup {a} ELSE connections
    /\ UNCHANGED <<workflowVars, discovered, dispatch, acceptVars, rpc, registry, inboxVars, serviceVars>>

\* CollaborativeAgent.create_workflow; the route builds the workflow with a
\* fresh workflow_id and the default status "pending".  The workflow is
\* stored before the invitations go out, whatever becomes of them.
create_workflow(w, name, agents, steps) ==
    /\ ~Registered(workflows, w)
    /\ workflows' = [workflows EXCEPT ![w] =
           [name |-> name, agents |-> agents, steps |-> steps, status |-> "pending"]]
    /\ UNCHANGED <<connections, execs, discovered, dispatch, acceptVars, rpc, registry, inboxVars, serviceVars>>

\* execute_workflow(workflow_id) called by e: raises for an unknown id, else
\* sets "running" and runs up to its first suspension
execute_workflow(e, w) ==
    /\ execs[e].pc # "await"
    /\ IF w \notin WorkflowIds \/ ~Registered(workflows, w)
       THEN /\ execs' = [execs EXCEPT ![e] = [IdleExec EXCEPT !.pc = "raised", !.wf = w]]
            /\ UNCHANGED workflows
       ELSE LET x == RunWorkflow([IdleExec EXCEPT !.pc = "await", !.wf = w,
                                                   !.wrote = "running"],
                                 workflows[w], connections)
            IN /\ execs' = [execs EXCEPT ![e] = x]
               /\ workflows' = WriteStatus(workflows, w, x)
    /\ UNCHANGED <<connections, discovered, dispatch, acceptVars, rpc, registry, inboxVars, serviceVars>>

\* the remote agent's reply to the POST of step i of e's call
step_reply(e, i, reply) ==
    /\ execs[e].pc = "await"
    /\ i \in execs[e].pending
    /\ LET w == execs[e].wf
           wf == workflows[w]
           x == IF wf.name = "parallel"
                THEN AfterParallelReply(execs[e], wf, i, reply, connections)
                ELSE AfterStepReply(execs[e], wf, i, reply, connections)
       IN /\ execs' = [execs EXCEPT ![e] = x]
          /\ workflows' = IF x.pc = "returned" THEN WriteStatus(workflows, w, x)
                          ELSE workflows
    /\ UNCHANGED <<connections, discovered, dispatch, acceptVars, rpc, registry, inboxVars, serviceVars>>

\* the state after construction (A2AAgent.__init__, CollaborativeAgent.__init__,
\* AgentDiscovery.__init__)
InitCollaboration ==
    /\ connections = {}
    /\ workflows = [w \in WorkflowIds |-> NoWorkflow]
    /\ execs = [e \in Execs |-> IdleExec]
    /\ discovered = <<>>
    /\ dispatch = IdleDispatch
    /\ capabilities = EmptyDict
    /\ active_tasks = EmptyDict
    /\ collab_response = NoResponse
    /\ rpc = IdleRpc
    /\ message_queue = <<>>
    /\ received = NothingReceived
    /\ completed_tasks = EmptyDict
    /\ partners = EmptyDict
    /\ http = NoCall
    /\ stream = NoStream
    /\ conversation = NoConversation
    /\ registry = load_registry(MissingFile)

InitWorkflow == InitCollaboration

NextWorkflow ==
    \/ \E a \in Agents, ok \in BOOLEAN : connect(a, ok)
    \/ \E w \in WorkflowIds, name \in WorkflowNames, agents \in AgentLists,
          steps \in StepLists :
          create_workflow(w, name, agents, steps)
    \/ \E e \in Execs, w \in WorkflowIds \cup UnknownIds : execute_workflow(e, w)
    \/ \E e \in Execs, i \in 0..(MaxSteps - 1), reply \in Replies : step_reply(e, i, reply)

SpecWorkflow == InitWorkflow /\ [][NextWorkflow]_vars

InitDispatch == InitCollaboration

NextDispatch ==
    \/ \E a \in Agents, ok \in BOOLEAN : connect(a, ok)
    \/ \E id \in DiscoverableIds, caps \in CardCaps : register_agent(id, caps)
    \/ \E required \in SUBSET Caps, explicit \in BOOLEAN, given \in TargetLists :
          request_collaboration(required, explicit, given)
    \/ \E reply \in Replies : dispatch_reply(reply)

SpecDispatch == InitDispatch /\ [][NextDispatch]_vars

InitAccept == InitCollaboration

NextAccept ==
    \/ \E cap \in Caps, level \in Levels : register_capability(cap, level)
    \/ \E id \in DiscoverableIds, caps \in CardCaps : register_agent(id, caps)
    \/ \E task \in Tasks : handle_collaboration_request(task)

SpecAccept == InitAccept /\ [][NextAccept]_vars

InitRpc == InitCollaboration

NextRpc ==
    \/ rpc.pc = "idle" /\ \E data \in RequestData : process_request(data)
    \/ rpc_return

SpecRpc == InitRpc /\ [][NextRpc]_vars

\* the registry after construction, whatever file it found
InitRegistry ==
    /\ connections = {}
    /\ workflows = [w \in WorkflowIds |-> NoWorkflow]
    /\ execs = [e \in Execs |-> IdleExec]
    /\ discovered = <<>>
    /\ dispatch = IdleDispatch
    /\ capabilities = EmptyDict
    /\ active_tasks = EmptyDict
    /\ collab_response = NoResponse
    /\ rpc = IdleRpc
    /\ message_queue = <<>>
    /\ received = NothingReceived
    /\ completed_tasks = EmptyDict
    /\ partners = EmptyDict
    /\ http = NoCall
    /\ stream = NoStream
    /\ conversation = NoConversation
    /\ \E file \in InitialFiles : registry = load_registry(file)

NextRegistry ==
    \/ \E agent \in RegistryAgents : add_agent(agent)
    \/ \E agent_id \in RegistryIds : remove_agent(agent_id)
    \/ \E agent_id \in RegistryIds, status \in Statuses : update_agent_status(agent_id, status)
    \/ \E agent_id \in RegistryIds, fetched \in BOOLEAN, card \in Cards :
          discover_and_register_agent(agent_id, fetched, card)

SpecRegistry == InitRegistry /\ [][NextRegistry]_vars

InitLookup == InitCollaboration

NextLookup ==
    \/ \E agent \in LookupAgents : add_agent(agent)
    \/ \E agent_id \in RegistryIds : remove_agent(agent_id)

SpecLookup == InitLookup /\ [][NextLookup]_vars

InitReceive == InitCollaboration

NextReceive == \E message_data \in Envelopes : receive_message(message_data)

SpecReceive == InitReceive /\ [][NextReceive]_vars

InitChain == InitCollaboration

NextChain ==
    \/ \E a \in Agents, ok \in BOOLEAN : connect(a, ok)
    \/ \E w \in WorkflowIds, name \in ChainNames, agents \in ChainAgentLists,
          steps \in ChainStepLists :
          create_workflow(w, name, agents, steps)
    \/ \E w \in WorkflowIds : execute_workflow(ChainExec, w)
    \/ \E i \in 0..(MaxChain - 1), reply \in ChainReplies :
          step_reply(ChainExec, i, reply)

SpecChain == InitChain /\ [][NextChain]_vars

InitRoutes == InitCollaboration

NextRoutes ==
    \/ \E message_data \in Envelopes : route_receive_message(message_data)
    \/ \E agent_data \in RegisterBodies : route_register_agent(agent_data)
    \/ \E capability \in FindBodies : route_find_agents_by_capability(capability)
    \/ \E partner_data \in PartnerBodies : add_collaboration_partner(partner_data)

SpecRoutes == InitRoutes /\ [][NextRoutes]_vars

InitTasks == InitCollaboration

NextTasks ==
    \/ \E cap \in Caps, level \in Levels : register_capability(cap, level)
    \/ \E task \in Tasks : handle_collaboration_request(task)
    \/ \E task_id \in TaskIds, response_data \in ResponseData :
          respond_to_collaboration(task_id, response_data)

SpecTasks == InitTasks /\ [][NextTasks]_vars

InitStream == InitCollaboration

NextStream ==
    \/ create_stream
    \/ stream_send_message
    \/ close_stream
    \/ generator_start
    \/ generator_resume
    \/ generator_get
    \/ generator_timeout

SpecStream == InitStream /\ [][NextStream]_vars

InitConversation == InitCollaboration

NextConversation ==
    \/ \E session_id \in SessionIds, participant_ids \in ParticipantLists :
          start_conversation(session_id, participant_ids)
    \/ \E session_id \in SessionIds, recipient_id \in Recipients :
          conversation_send_message(session_id, recipient_id)
    \/ \E reply \in ConversationReplies : conversation_reply(reply)
    \/ \E session_id \in SessionIds : end_conversation(session_id)

SpecConversation == InitConversation /\ [][NextConversation]_vars

(***************************************************************************)
(* Claims about the workflow executor (under SpecWorkflow)                 *)
(***************************************************************************)
Terminal == {"completed", "failed"}

InCall(x) == x.pc \in {"await", "returned"}

NameOf(x) == workflows[x.wf].name

\* the list request_collaboration returned for a step holds no response, or
\* one whose status is not "completed"
BadResponse(r) == r = <<>> \/ r[1].status # "completed"

\* C1: a workflow's status only moves pending -> running -> completed or
\* failed, and once completed or failed it never changes again, whatever
\* execute_workflow calls follow or overlap.
C1_StatusNeverRegresses ==
    [][\A w \in WorkflowIds :
        /\ workflows[w].status \in Terminal
              => workflows'[w].status = workflows[w].status
        /\ workflows[w].status = "running"
              => workflows'[w].status \in {"running"} \cup Terminal
        /\ workflows[w].status = "pending"
              => workflows'[w].status \in {"pending", "running"} \cup Terminal]_vars

\* C2 (state part): in a "sequential" workflow a step whose response is
\* missing or not "completed" ends the call with the error result and no
\* request was sent for a later step.
C2_Inv ==
    \A e \in Execs :
        (InCall(execs[e]) /\ NameOf(execs[e]) = "sequential") =>
            \A i \in DOMAIN execs[e].responses :
                BadResponse(execs[e].responses[i]) =>
                    /\ execs[e].pc = "returned"
                    /\ execs[e].wrote = "failed"
                    /\ ErrorKey \in DOMAIN execs[e].results
                    /\ \A j \in execs[e].sent : j <= i

\* C2 (step part): the call that returns leaves the workflow with the status
\* it ended with.
C2_Step ==
    \A e \in Execs :
        (execs'[e] # execs[e] /\ execs'[e].pc = "returned") =>
            workflows'[execs'[e].wf].status = execs'[e].wrote

\* C2: in a workflow named "sequential", if the response for step i is
\* missing or has a status other than "completed", execute_workflow ends
\* with the workflow status "failed" and no collaboration request is sent
\* for any step j > i.
C2_SequentialAbortsOnFailedStep == []C2_Inv /\ [][C2_Step]_vars

\* C2 witness: a sequential call that ended at a failed step 0 with a later
\* step left unsent.
C2_Witness ==
    \E e \in Execs :
        /\ execs[e].pc = "returned"
        /\ NameOf(execs[e]) = "sequential"
        /\ Len(workflows[execs[e].wf].steps) >= 2
        /\ 0 \in DOMAIN execs[e].responses
        /\ execs[e].responses[0] # <<>>
        /\ execs[e].responses[0][1].status = "rejected"
        /\ execs[e].sent = {0}
        /\ workflows[execs[e].wf].status = "failed"

WellFormed(wf) == \A i \in StepIndexes(wf) : wf.steps[i + 1] = "full"

ParallelKeys(wf) == {<<"task", i>> : i \in StepIndexes(wf)}

C3_Inv ==
    \A e \in Execs :
        (/\ InCall(execs[e])
         /\ NameOf(execs[e]) = "parallel"
         /\ workflows[execs[e].wf].agents # <<>>
         /\ WellFormed(workflows[execs[e].wf]))
            => LET x == execs[e]
                   wf == workflows[x.wf]
               IN /\ x.sent \cup DOMAIN x.responses = StepIndexes(wf)
                  /\ x.pending = StepIndexes(wf) \ DOMAIN x.responses
                  /\ \A i \in DOMAIN x.responses :
                        /\ i \notin x.sent => x.responses[i] = <<>>
                        /\ \/ x.responses[i] = <<>>
                           \/ \E r \in ValidReplies : x.responses[i] = <<r>>
                  /\ x.pc = "returned" =>
                        /\ DOMAIN x.results = ParallelKeys(wf)
                        /\ x.wrote = "completed"
                        /\ \A i \in StepIndexes(wf) :
                              x.results[<<"task", i>>] = x.responses[i]

\* C3 amended (step part): the reply to step k sets entry k to that reply's
\* TaskResponse, or to the empty list when the dispatch failed, and leaves
\* every sibling's entry and every sibling's request in flight as it was.
C3_Step ==
    \A e \in Execs :
        (/\ execs'[e] # execs[e]
         /\ execs[e].pc = "await"
         /\ NameOf(execs[e]) = "parallel")
            => \A k \in execs[e].pending \ execs'[e].pending, reply \in Replies :
                  step_reply(e, k, reply)
                     => /\ execs'[e].responses[k] =
                               IF reply.kind = "response" THEN <<reply>> ELSE <<>>
                        /\ \A j \in DOMAIN execs[e].responses :
                               execs'[e].responses[j] = execs[e].responses[j]
                        /\ execs'[e].pending = execs[e].pending \ {k}
                        /\ execs'[e].sent = execs[e].sent

C5_Step ==
    \A e \in Execs :
        /\ (execs'[e] # execs[e] /\ execs'[e].pc = "raised") =>
              /\ \/ execs'[e].wf \notin WorkflowIds
                 \/ ~Registered(workflows, execs'[e].wf)
              /\ workflows' = workflows
        /\ (execs'[e] # execs[e] /\ execs'[e].pc = "returned") =>
              workflows'[execs'[e].wf].status = execs'[e].wrote

ReturnsError(x) == ErrorKey \in DOMAIN x.results /\ x.wrote = "failed"

\* a failure as C5 lists them: a failed step, an empty agents list, a step
\* lacking type or description
HadFailure(x, wf) ==
    \/ \E i \in DOMAIN x.responses : BadResponse(x.responses[i])
    \/ wf.agents = <<>>
    \/ ~WellFormed(wf)

C5_AsStated_Inv ==
    \A e \in Execs :
        (execs[e].pc = "returned" /\ HadFailure(execs[e], workflows[execs[e].wf]))
            => ReturnsError(execs[e])

\* C5 as stated: execute_workflow raises only for an unregistered id and
\* then changes no workflow; for a registered workflow every failure (a
\* failed step, an empty agents list, a step lacking type or description)
\* is returned as a result containing "error" with status "failed".
C5_EveryFailureIsAnErrorResult == []C5_AsStated_Inv /\ [][C5_Step]_vars

\* every step has a response and every response is "completed"
AllCompleted(x, wf) ==
    \A i \in StepIndexes(wf) :
        i \in DOMAIN x.responses /\ ~BadResponse(x.responses[i])

\* the requests of a parallel workflow can all be built
Buildable(wf) == wf.steps = <<>> \/ (wf.agents # <<>> /\ WellFormed(wf))

FailsByStrategy(x, wf) ==
    IF wf.name \in {"sequential", "pipeline"} THEN ~AllCompleted(x, wf)
    ELSE IF wf.name = "parallel" THEN ~Buildable(wf)
    ELSE FALSE

C5_Inv ==
    \A e \in Execs :
        execs[e].pc = "returned" =>
            LET x == execs[e]
                wf == workflows[x.wf]
            IN IF FailsByStrategy(x, wf)
               THEN ReturnsError(x)
               ELSE ErrorKey \notin DOMAIN x.results /\ x.wrote = "completed"

\* C5 (amended): execute_workflow raises only when workflow_id is not
\* registered, and then changes no workflow's state.  For a registered
\* workflow nothing is raised: a "sequential" or "pipeline" workflow returns
\* a result containing "error" and sets "failed" exactly when some step got
\* no "completed" response (failed step, empty agents list, step lacking
\* type or description); a "parallel" workflow does so exactly when a
\* request cannot be built (steps with an empty agents list, a step lacking
\* type or description), a failed dispatch being left in its entry with the
\* status "completed"; any other name returns {} with "completed".
C5_FailuresByStrategy == []C5_Inv /\ [][C5_Step]_vars

\* C5 witness: one call raised for an unknown id while a workflow is
\* registered, another returned the error result for an empty agents list.
C5_Witness ==
    \E e \in Execs, f \in Execs :
        /\ execs[e].pc = "raised"
        /\ execs[e].wf \in UnknownIds
        /\ execs[f].pc = "returned"
        /\ workflows[execs[f].wf].agents = <<>>
        /\ ReturnsError(execs[f])
        /\ workflows[execs[f].wf].status = "failed"

(***************************************************************************)
(* C4: request_collaboration with a list of targets                        *)
(***************************************************************************)
\* what a call in the given scope has done so far: it has not raised, it
\* walks the list it was given, and it holds valid TaskResponses only
C4_InvOf(scope) ==
    scope =>
        /\ dispatch.pc # "raised"
        /\ dispatch.targets = dispatch.given
        /\ \A i \in 1..Len(dispatch.responses) : dispatch.responses[i] \in ValidReplies
        /\ Len(dispatch.responses) <= dispatch.idx

\* a new call starts with no response; the reply of a target is appended
\* exactly when it is a 200 with a valid TaskResponse, the call does not
\* raise and goes on to a later target
C4_Step ==
    /\ (dispatch.pc # "await" /\ dispatch' # dispatch) => dispatch'.responses = <<>>
    /\ \A reply \in Replies :
           dispatch_reply(reply) =>
               /\ dispatch'.responses =
                      IF reply \in ValidReplies
                      THEN Append(dispatch.responses, reply)
                      ELSE dispatch.responses
               /\ dispatch'.targets = dispatch.targets
               /\ dispatch'.idx > dispatch.idx
               /\ dispatch'.pc \in {"await", "returned"}

\* C4 as stated: request_collaboration called with an explicit list of
\* targets never raises because of one agent's failure and returns exactly
\* the TaskResponses of the listed targets that answered 200 with a valid
\* TaskResponse, in target order.
C4_ExplicitListIsDispatched == []C4_InvOf(dispatch.explicit) /\ [][C4_Step]_vars

\* C4 (amended): request_collaboration called with a non-empty list of
\* targets never raises because of one agent's failure (no connection,
\* network error, non-200 reply, invalid reply) and returns exactly the
\* TaskResponses of the listed targets that answered 200 with a valid
\* TaskResponse, in target order; an empty list is handled as an omitted one.
C4_NonEmptyListIsDispatched ==
    []C4_InvOf(dispatch.explicit /\ dispatch.given # <<>>) /\ [][C4_Step]_vars

\* C4 witness: a call with 3 connected targets returned 2 responses, the
\* POST to one of them having failed.
C4_Witness ==
    /\ dispatch.pc = "returned"
    /\ dispatch.explicit
    /\ Len(dispatch.given) = 3
    /\ \A i \in 1..3 : dispatch.given[i] \in connections
    /\ {dispatch.given[i] : i \in 1..3} = Agents
    /\ Len(dispatch.responses) = 2

(***************************************************************************)
(* C6: handle_collaboration_request                                        *)
(***************************************************************************)
C6_Step ==
    \A task \in Tasks :
        (/\ <<active_tasks, collab_response>>' # <<active_tasks, collab_response>>
         /\ collab_response'.task_id = task.task_id
         /\ handle_collaboration_request(task)) =>
            LET able == \A cap \in task.required :
                            /\ cap \in DOMAIN capabilities
                            /\ capabilities[cap] >=
                                   (IF cap \in DOMAIN task.min_level
                                    THEN task.min_level[cap] ELSE 1)
            IN /\ collab_response'.status = "accepted" <=> able
               /\ able =>
                     /\ task.task_id \in DOMAIN active_tasks'
                     /\ active_tasks'[task.task_id] = task
                     /\ \A t \in DOMAIN active_tasks \ {task.task_id} :
                            t \in DOMAIN active_tasks' /\ active_tasks'[t] = active_tasks[t]
               /\ ~able =>
                     /\ active_tasks' = active_tasks
                     /\ collab_response'.status = "rejected"
                     /\ collab_response'.has_result

\* C6: handle_collaboration_request answers "accepted" if and only if every
\* required capability is registered with a level >= its _min_level (1 when
\* the key is absent); on accept the task is recorded in active_tasks under
\* its task_id, on reject active_tasks is unchanged and the response is
\* "rejected" with result.suggested_agents.
C6_AcceptsIffCapable == [][C6_Step]_vars

\* C6 witness: a task with a required capability was accepted and recorded,
\* and a later one was rejected with a suggested agent.
C6_Witness ==
    /\ \E t \in DOMAIN active_tasks : active_tasks[t].required # {}
    /\ collab_response.status = "rejected"
    /\ collab_response.task_id \in DOMAIN active_tasks
    /\ collab_response.suggested # <<>>

(***************************************************************************)
(* C7, C8, C9: the JSON-RPC processor                                      *)
(***************************************************************************)
\* process_request has answered one JSON object
SingleObjectDone ==
    /\ rpc.pc = "done"
    /\ rpc.request.kind = "single"
    /\ rpc.request.elems[1].kind = "object"

IsError(resp, code) == resp.kind = "error" /\ resp.code = code

Malformed(e) == e.kind # "object" \/ ~Validates(e)

\* C8: a non-empty batch is answered with an array that has one entry per
\* request carrying an id and per malformed element, in request order; the
\* entry of a request echoes its id and the entry of a malformed element is
\* an error.
C8_BatchAnswersEachRequest ==
    (rpc.pc = "done" /\ rpc.request.kind = "batch" /\ rpc.request.elems # <<>>) =>
        LET elems == rpc.request.elems
            Answered(i) == Malformed(elems[i]) \/ elems[i].id # "absent"
            idxs == SelectSeq([i \in 1..Len(elems) |-> i], Answered)
        IN /\ rpc.shape = "array"
           /\ Len(rpc.items) = Len(idxs)
           /\ \A k \in 1..Len(idxs) :
                  /\ elems[idxs[k]].id \in ClientIds => rpc.items[k].id = elems[idxs[k]].id
                  /\ Malformed(elems[idxs[k]]) => rpc.items[k].kind = "error"

\* a request that names a registered method, passes validation and carries
\* no id
Notification(e) ==
    /\ e.kind = "object"
    /\ Validates(e)
    /\ e.method \in Methods
    /\ Binds(e.method, e.params)
    /\ e.id = "absent"

\* C9: the method of a request without id is executed, single processing
\* returns no response object for it, and it adds no entry to the array that
\* answers a batch.
C9_NotificationsGetNoResponse ==
    (rpc.pc = "done" /\ rpc.request.kind \in {"single", "batch"}) =>
        LET elems == rpc.request.elems
            notes == {i \in 1..Len(elems) : Notification(elems[i])}
        IN /\ \A i \in notes : rpc.invoked[i]
           /\ (rpc.request.kind = "single" /\ notes # {}) => rpc.items[1].kind = "none"
           /\ (rpc.request.kind = "batch" /\ rpc.shape = "array") =>
                  Len(rpc.items) <= Len(elems) - Cardinality(notes)

SameLetter(c, d) == c = d \/ {c, d} = {"s", "S"} \/ {c, d} = {"o", "O"}

\* two texts that differ in letter case only
SameIgnoringCase(t1, t2) ==
    /\ Len(t1) = Len(t2)
    /\ \A i \in 1..Len(t1) : SameLetter(t1[i], t2[i])

\* C11: get_agent_by_alias is case-insensitive: two query texts that differ
\* only in letter case return the same record, or not-found both.
C11_AliasLookupIgnoresCase ==
    \A q1 \in Queries, q2 \in Queries :
        SameIgnoringCase(q1, q2) =>
            get_agent_by_alias(registry.agents, q1) = get_agent_by_alias(registry.agents, q2)

\* C11 witness: a record registered with the alias "S", whose name does not
\* hold that letter, is returned for "s" and for "S".
C11_Witness ==
    \E i \in 1..Len(registry.agents) :
        /\ registry.agents[i].name = <<"o">>
        /\ registry.agents[i].aliases = <<<<"S">>>>
        /\ get_agent_by_alias(registry.agents, <<"s">>) = registry.agents[i]
        /\ get_agent_by_alias(registry.agents, <<"S">>) = registry.agents[i]

HasAlias(a, q) == \E i \in 1..Len(a.aliases) : SameIgnoringCase(a.aliases[i], q)

\* C12: whenever some registered record has an alias equal to the query
\* ignoring case, get_agent_by_alias returns a record that has such an
\* alias; a record matched by its name only is returned only when no
\* record has a matching alias.
C12_AliasBeforeName ==
    \A q \in Queries :
        (\E k \in 1..Len(registry.agents) : HasAlias(registry.agents[k], q)) =>
            /\ get_agent_by_alias(registry.agents, q) # NotFound
            /\ HasAlias(get_agent_by_alias(registry.agents, q), q)

(***************************************************************************)
(* C13, C14: get_recommended_agents                                        *)
(***************************************************************************)
\* the words of a list that the lowercased query contains
ContainedIn(words, q) ==
    Cardinality({i \in 1..Len(words) : Contains(Lower(words[i]), Lower(q))})

\* the score formula of the claim
FormulaScore(a, q) ==
    3 * ContainedIn(a.keywords, q)
    + 5 * ContainedIn(a.aliases, q)
    + 4 * ContainedIn(<<a.name>>, q)
    + 2 * ContainedIn(<<a.specialty>>, q)
    + a.trust_level
    + a.popularity_score \div 20

\* the place of a record in the registry's insertion order
PlaceOf(a) == CHOOSE i \in 1..Len(registry.agents) : registry.agents[i] = a

\* C13: get_recommended_agents(query, limit=N) with N >= 0 returns at most
\* N registered records, each with score > 0, in non-increasing order of
\* the score 3*keywords + 5*aliases + 4*name + 2*specialty + trust_level
\* + popularity_score div 20; records with equal score keep their
\* insertion order.
C13_RecommendedByScore ==
    \A q \in Queries, N \in Limits :
        LET out == get_recommended_agents(registry.agents, q, N)
        IN /\ Len(out) <= N
           /\ \A i \in 1..Len(out) :
                  /\ \E k \in 1..Len(registry.agents) : registry.agents[k] = out[i]
                  /\ FormulaScore(out[i], q) > 0
           /\ \A i \in 1..Len(out), j \in 1..Len(out) :
                  i < j =>
                      /\ FormulaScore(out[i], q) >= FormulaScore(out[j], q)
                      /\ FormulaScore(out[i], q) = FormulaScore(out[j], q)
                             => PlaceOf(out[i]) < PlaceOf(out[j])

\* C13 witness: of two records the later one scores higher for "o" and
\* comes first, alone when the limit is 1; for the empty query their
\* scores are equal and they come in insertion order.
C13_Witness ==
    /\ Len(registry.agents) = 2
    /\ get_recommended_agents(registry.agents, <<"o">>, 2)
           = <<registry.agents[2], registry.agents[1]>>
    /\ get_recommended_agents(registry.agents, <<"o">>, 1) = <<registry.agents[2]>>
    /\ FormulaScore(registry.agents[1], <<>>) = FormulaScore(registry.agents[2], <<>>)
    /\ get_recommended_agents(registry.agents, <<>>, 2)
           = <<registry.agents[1], registry.agents[2]>>

\* the query holds no keyword, alias, name or specialty of any record
NothingKnown(q) ==
    \A k \in 1..Len(registry.agents) :
        LET a == registry.agents[k]
        IN ContainedIn(a.keywords, q) + ContainedIn(a.aliases, q)
           + ContainedIn(<<a.name>>, q) + ContainedIn(<<a.specialty>>, q) = 0

\* C14: get_recommended_agents returns the empty list for the empty query
\* and for a query that holds none of any registered agent's keywords,
\* aliases, name or specialty, whatever agents are registered.
C14_UnknownQueryGivesNothing ==
    \A q \in Queries, N \in Limits :
        (q = <<>> \/ NothingKnown(q)) =>
            get_recommended_agents(registry.agents, q, N) = <<>>

(***************************************************************************)
(* C15, C16, C17: the registry's mutators and its backing file             *)
(***************************************************************************)
Occurs(x, list) == \E i \in 1..Len(list) : list[i] = x

\* C15: remove_agent(id) returns true if and only if id was registered;
\* after a true return the id is not registered and occurs in no category
\* list and in no tag list, whatever those lists held before; after a false
\* return agents, categories and tags are unchanged.
C15_RemovePurgesTheId ==
    [][\A id \in RegistryIds :
          remove_agent(id) =>
              LET was == \E i \in 1..Len(registry.agents) : registry.agents[i].agent_id = id
              IN /\ remove_agent_returns(registry, id) <=> was
                 /\ was =>
                       /\ \A i \in 1..Len(registry'.agents) : registry'.agents[i].agent_id # id
                       /\ \A c \in DOMAIN registry'.categories : ~Occurs(id, registry'.categories[c])
                       /\ \A t \in DOMAIN registry'.tags : ~Occurs(id, registry'.tags[t])
                 /\ ~was =>
                       /\ registry'.agents = registry.agents
                       /\ registry'.categories = registry.categories
                       /\ registry'.tags = registry.tags]_vars

\* C16: add_agent inserts or overwrites by agent_id, and after every
\* mutation (add_agent, remove_agent, update_agent_status, a successful
\* discover_and_register_agent) the backing file holds exactly the records
\* held in memory, whatever the outcome of the initial load.
C16_FileMirrorsMemory ==
    [][/\ \A agent \in RegistryAgents :
             add_agent(agent) =>
                 /\ \E i \in 1..Len(registry'.agents) : registry'.agents[i] = agent
                 /\ Cardinality({i \in 1..Len(registry'.agents) :
                                    registry'.agents[i].agent_id = agent.agent_id}) = 1
       /\ registry' # registry =>
             /\ registry'.file.exists
             /\ registry'.file.agents = registry'.agents]_vars

\* the load of this file fails: it cannot be read, or one of its records
\* fails validation
LoadFails(file) == ~file.exists \/ Occurs(BadRecord, file.agents)

\* C17: a registry as construction leaves it after a failed load of its
\* file holds no agents.
C17_FailedLoadGivesEmptyStore ==
    (registry = load_registry(registry.file) /\ LoadFails(registry.file))
        => registry.agents = <<>>

(***************************************************************************)
(* C18, C19: receive_message                                               *)
(***************************************************************************)
\* the message types receive_message has a handler for
Handled == {"ping", "data_request", "data_response"}

C18_Step ==
    \A env \in Envelopes :
        receive_message(env) =>
            IF env.complete
            THEN /\ Len(message_queue') = Len(message_queue) + 1
                 /\ \A i \in 1..Len(message_queue) : message_queue'[i] = message_queue[i]
                 /\ message_queue'[Len(message_queue')].id = env.id
                 /\ message_queue'[Len(message_queue')].message_type = env.message_type
                 /\ received'.out = "return"
                 /\ env.message_type = "ping" => received'.status = "pong"
                 /\ env.message_type = "data_request" => received'.status = "data_response"
                 /\ env.message_type \notin Handled =>
                        /\ received'.status = "received"
                        /\ received'.message_id = env.id
                        /\ received'.keys = {"status", "message_id", "timestamp"}
            ELSE /\ message_queue' = message_queue
                 /\ received'.out = "raise"

\* C18: receive_message on a valid envelope replies by message_type: "ping"
\* gives status "pong", "data_request" gives "data_response", a type without
\* a handler gives {status: "received", message_id, timestamp} with the
\* envelope's id; each accepted envelope is appended to the message queue
\* exactly once, and an envelope that is not accepted is not appended.
C18_RepliesByMessageType == [][C18_Step]_vars

\* C18 witness: two envelopes are queued in the order they came, the last
\* one of a type without a handler and answered with its id.
C18_Witness ==
    /\ Len(message_queue) = 2
    /\ message_queue[1] = [id |-> "m1", message_type |-> "ping"]
    /\ message_queue[2] = [id |-> "m2", message_type |-> "other"]
    /\ received = ReplyDict("received", "m2", {"status", "message_id", "timestamp"})

\* C19: an envelope of type "collaboration_request" is answered with a
\* TaskResponse (task_id, agent_id, status accepted or rejected), so that
\* the sender's request_collaboration obtains one TaskResponse from it.
C19_CollaborationRequestIsAnswered ==
    [][\A env \in Envelopes :
          (env.complete /\ env.message_type = "collaboration_request"
           /\ receive_message(env)) =>
              /\ {"task_id", "agent_id", "status"} \subseteq received'.keys
              /\ received'.status \in {"accepted", "rejected"}
              /\ Len(collect(<<>>, [kind |-> "json", body |-> AsTaskResponse(received')])) = 1]_vars

(***************************************************************************)
(* C20: discovery of an agent card                                         *)
(***************************************************************************)
\* C20: on every discovery path a fetched card that lacks one of name,
\* description, url, capabilities makes discovery fail: None is returned
\* and no agent is registered.
C20_IncompleteCardIsRejected ==
    [][\A card \in Cards :
          card # CardFields =>
              /\ fetch_agent_card(TRUE, card) = "none"
              /\ \A agent_id \in RegistryIds :
                     discover_and_register_agent(agent_id, TRUE, card)
                         => registry' = registry]_vars

(***************************************************************************)
(* C24: the fan-out of request_collaboration (under SpecDispatch)          *)
(***************************************************************************)
\* the targets whose POST has been issued and not answered yet: the loop
\* awaits send_message for one target before it goes on to the next
InFlight(d) == IF d.pc = "await" THEN {d.idx} ELSE {}

\* C24: request_collaboration fans out: while the reply of one target is
\* awaited, the POST to every later target that has a connection is in
\* flight as well.
C24_RequestsAreConcurrent ==
    dispatch.pc = "await" =>
        \A j \in dispatch.idx..(Len(dispatch.targets) - 1) :
            dispatch.targets[j + 1] \in connections => j \in InFlight(dispatch)

(***************************************************************************)
(* C25: params that are neither an array nor an object (under SpecRpc)     *)
(***************************************************************************)
\* C25: a request naming a registered method whose params is neither an
\* array nor an object is answered -32602 with the request's id, and the
\* method is not invoked.
C25_ScalarParamsAreInvalidParams ==
    SingleObjectDone =>
        LET req == rpc.request.elems[1]
            resp == rpc.items[1]
        IN (req.method \in Methods /\ req.params = "scalar" /\ req.id \in ClientIds) =>
              /\ IsError(resp, -32602)
              /\ resp.id = req.id
              /\ rpc.invoked = <<FALSE>>

(***************************************************************************)
(* C28: a workflow whose name selects no strategy (under SpecWorkflow)     *)
(***************************************************************************)
Strategies == {"sequential", "parallel", "pipeline"}

\* C28: a call of execute_workflow ends "completed" only when one of the
\* three strategies ran: a registered workflow with another name is never
\* reported completed with an empty result and no request sent.
C28_CompletedOnlyByAStrategy ==
    \A e \in Execs :
        (execs[e].pc = "returned" /\ NameOf(execs[e]) \notin Strategies) =>
            ~(/\ execs[e].wrote = "completed"
              /\ workflows[execs[e].wf].status = "completed"
              /\ execs[e].results = EmptyDict
              /\ execs[e].sent = {})

(***************************************************************************)
(* C21: requests that lack a required field (under SpecRoutes)             *)
(***************************************************************************)
Is4xx(status_code) == status_code \in 400..499

TablesUnchanged == UNCHANGED <<message_queue, discovered, partners>>

\* C21: a request that lacks a required field (an envelope missing a field,
\* a registration without agent_id, a capability search without capability,
\* a partner addition without agent_id) ends with a 4xx status, never a 5xx
\* one, and leaves the message queue, the discovered-agent table and the
\* partner table as they were.
C21_MissingFieldIs4xx ==
    [][/\ \A message_data \in Envelopes :
              (~message_data.complete /\ route_receive_message(message_data))
                  => Is4xx(http') /\ TablesUnchanged
       /\ \A agent_data \in RegisterBodies :
              (agent_data.agent_id = Absent /\ route_register_agent(agent_data))
                  => Is4xx(http') /\ TablesUnchanged
       /\ route_find_agents_by_capability(Absent)
              => Is4xx(http') /\ TablesUnchanged
       /\ \A partner_data \in PartnerBodies :
              (partner_data.agent_id = Absent /\ add_collaboration_partner(partner_data))
                  => Is4xx(http') /\ TablesUnchanged]_vars

(***************************************************************************)
(* C26: active and completed tasks (under SpecTasks)                       *)
(***************************************************************************)
C26_Inv == (DOMAIN active_tasks) \cap (DOMAIN completed_tasks) = {}

C26_Step ==
    /\ \A task_id \in DOMAIN completed_tasks :
           /\ task_id \in DOMAIN completed_tasks'
           /\ completed_tasks'[task_id] = completed_tasks[task_id]
    /\ \A task_id \in TaskIds, response_data \in ResponseData :
           (task_id \notin DOMAIN active_tasks
            /\ respond_to_collaboration(task_id, response_data))
               => UNCHANGED <<active_tasks, completed_tasks>>

\* C26: over any sequence of accepted collaboration requests and responses
\* no task_id is in active_tasks and in completed_tasks at once, a response
\* stored for a task_id is never replaced, and respond_to_collaboration for
\* a task_id that is not active changes neither table.
C26_ActiveAndCompletedAreDisjoint == []C26_Inv /\ [][C26_Step]_vars

(***************************************************************************)
(* C29: delivery of a stream to its consumer (under SpecStream)            *)
(***************************************************************************)
IsData(message) == message.event = "message"

\* the consumer was connected and has seen "close" or has terminated
ConsumerFinished == stream.pc \in {"close", "done"} /\ stream.yielded # <<>>

C29_Inv ==
    ConsumerFinished => SelectSeq(stream.yielded, IsData) = stream.accepted

C29_Step ==
    stream.status = "closed" =>
        /\ stream'.message_count = stream.message_count
        /\ stream'.accepted = stream.accepted
        /\ stream'.last_send # stream.last_send => stream'.last_send = "false"

\* C29: with one consumer, every message send_message returned True for is
\* yielded to the consumer, in send order, before the consumer sees "close"
\* or terminates, under every interleaving; after close_stream, send_message
\* returns False and message_count no longer changes.
C29_AcceptedMessagesAreDelivered == []C29_Inv /\ [][C29_Step]_vars

(***************************************************************************)
(* C30: conversations (under SpecConversation)                             *)
(***************************************************************************)
C30_Inv ==
    \A s \in SessionIds :
        conversation.sessions[s].message_count = Len(conversation.sessions[s].messages)

\* a request for session s goes out in this step
RequestSent(s) ==
    /\ conversation'.call.pc = "await"
    /\ conversation'.call.session = s
    /\ conversation.call.pc # "await"

C30_Step ==
    \A s \in SessionIds :
        conversation.sessions[s].status = "ended" =>
            /\ conversation'.sessions[s].messages = conversation.sessions[s].messages
            /\ ~RequestSent(s)

\* C30: for every session, after any sequence of start_conversation,
\* send_message and end_conversation, message_count is the number of
\* messages stored for the session, and once the session is "ended" no
\* message is appended to it and no request is sent to its participants.
C30_CountedAndClosedWhenEnded == []C30_Inv /\ [][C30_Step]_vars

(***************************************************************************)
(* C22, C23: what each step of a chain is sent (under SpecChain)           *)
(***************************************************************************)
\* the step's own requirements, as the workflow has them
OwnOf(x, i) == StepRequirements(workflows[x.wf].steps[i + 1])

\* the response for step i has been received and is "completed"
Answered(x, i) ==
    /\ i \in DOMAIN x.responses
    /\ x.responses[i] # <<>>
    /\ x.responses[i][1].status = "completed"

\* the result of step i, as the token the response carries ({} when absent)
ResultOf(x, i) ==
    IF x.responses[i][1].result = "none" THEN "empty" ELSE x.responses[i][1].result

\* C22: in a "sequential" workflow the request for step i + 1 is sent only
\* after the response for step i has been received; step i goes to
\* agents[i mod len(agents)]; the requirements sent for step i + 1 are that
\* step's own merged with the result of step i only, result keys overriding
\* equal step keys; step 0 is sent its own requirements unchanged.
C22_SequentialThreadsLastResult ==
    \A e \in Execs :
        (InCall(execs[e]) /\ NameOf(execs[e]) = "sequential") =>
            LET x == execs[e]
                wf == workflows[x.wf]
            IN /\ x.pending \cap DOMAIN x.responses = {}
               /\ \A i \in DOMAIN x.requests :
                    LET req == x.requests[i].requirements
                        own == OwnOf(x, i)
                    IN /\ x.requests[i].agent = wf.agents[(i % Len(wf.agents)) + 1]
                       /\ i = 0 => req = own
                       /\ i > 0 =>
                            /\ \A j \in 0..(i - 1) : Answered(x, j)
                            /\ LET result == AsDict(ResultOf(x, i - 1))
                               IN /\ DOMAIN req = (DOMAIN own) \cup (DOMAIN result)
                                  /\ \A k \in DOMAIN req :
                                        req[k] = IF k \in DOMAIN result
                                                 THEN result[k] ELSE own[k]

\* C22 witness: the third step of a sequential workflow was sent after the
\* results r1 and r2: it has the keys of r2 over its own and nothing of r1.
C22_Witness ==
    LET x == execs[ChainExec]
    IN /\ x.pc = "await"
       /\ NameOf(x) = "sequential"
       /\ x.pending = {2}
       /\ workflows[x.wf].agents = <<"a1", "a2">>
       /\ workflows[x.wf].steps[3] = "full"
       /\ x.responses[0][1].result = "r1"
       /\ x.responses[1][1].result = "r2"
       /\ x.requests[2].agent = "a1"
       /\ DOMAIN x.requests[2].requirements = {"own", "shared", "input_data", "out2"}
       /\ x.requests[2].requirements["shared"] = Value("r2")
       /\ x.requests[2].requirements["own"] = Value("own")

\* C23: in a "pipeline" workflow step 0 is sent exactly its own
\* requirements, and every step i > 0 its own requirements with
\* ["input_data"] set to the result of step i - 1 (the empty map when the
\* result was absent); the keys of the prior result are never merged into
\* the top level of the requirements.
C23_PipelineThreadsInputData ==
    \A e \in Execs :
        (InCall(execs[e]) /\ NameOf(execs[e]) = "pipeline") =>
            LET x == execs[e]
            IN \A i \in DOMAIN x.requests :
                    LET req == x.requests[i].requirements
                        own == OwnOf(x, i)
                    IN /\ i = 0 => req = own
                       /\ i > 0 =>
                            /\ Answered(x, i - 1)
                            /\ DOMAIN req = (DOMAIN own) \cup {"input_data"}
                            /\ req["input_data"] = DictValue(ResultOf(x, i - 1))
                            /\ \A k \in (DOMAIN req) \ {"input_data"} : req[k] = own[k]

\* C23 witness: the second step of a pipeline, a step without requirements
\* of its own, was sent after the result r1 with input_data alone.
C23_Witness ==
    LET x == execs[ChainExec]
    IN /\ x.pc = "await"
       /\ NameOf(x) = "pipeline"
       /\ x.pending = {1}
       /\ workflows[x.wf].steps[2] = "no_requirements"
       /\ x.responses[0][1].result = "r1"
       /\ DOMAIN x.requests[1].requirements = {"input_data"}
       /\ x.requests[1].requirements["input_data"] = DictValue("r1")

(***************************************************************************)
(* C27: create_workflow that returns False (under SpecWorkflow)            *)
(***************************************************************************)
\* C27: if create_workflow returns False because an invitation could not be
\* sent, the workflows table is as it was before the call and the workflow
\* is not registered.
C27_FailedCreateRegistersNothing ==
    [][\A w \in WorkflowIds :
          (~Registered(workflows, w) /\ Registered(workflows', w)) =>
              create_workflow_returns(connections, workflows'[w].agents,
                                      [i \in 1..Len(workflows'[w].agents) |->
                                          NoReply("falsy")])]_vars

====
